---- MODULE Spec2Model ----
(***************************************************************************)
(* Model of assets/extract-recat-eu/main.py: the Table-Mode converter of   *)
(* the RECAT-EU reference table (PDF) into a five-column CSV file.          *)
(*                                                                         *)
(* A Python str is a sequence of one-character strings, so that upper(),   *)
(* strip(), split(), startswith(), "in" and "+" are computed and not        *)
(* assumed.  Python's None is the one-element sequence None below, which   *)
(* is not a str of the model: only truthiness may be asked of it.          *)
(***************************************************************************)
EXTENDS Integers, Sequences, FiniteSets, TLC

\* ------------------------------------------------------------------------
\* Bounds of the model
\* ------------------------------------------------------------------------
MaxHead == 3
MaxPages == 2
MaxTables == 2

\* ------------------------------------------------------------------------
\* Python str primitives
\* ------------------------------------------------------------------------
None == <<"NoneType">>

Whitespace == {" ", "\t", "\n", "\r"}

LowerLetters == <<"a","b","c","d","e","f","g","h","i","j","k","l","m","n","o","p","q","r","s","t","u","v","w","x","y","z">>

UpperLetters == <<"A","B","C","D","E","F","G","H","I","J","K","L","M","N","O","P","Q","R","S","T","U","V","W","X","Y","Z">>

UpperChar(c) ==
  IF \E i \in 1..Len(LowerLetters) : LowerLetters[i] = c
  THEN UpperLetters[CHOOSE i \in 1..Len(LowerLetters) : LowerLetters[i] = c]
  ELSE c

\* str.upper()
Upper(s) == [i \in 1..Len(s) |-> UpperChar(s[i])]

RECURSIVE LStrip(_)
LStrip(s) ==
  IF s # << >> /\ Head(s) \in Whitespace THEN LStrip(Tail(s)) ELSE s

RECURSIVE RStrip(_)
RStrip(s) ==
  IF s # << >> /\ s[Len(s)] \in Whitespace
  THEN RStrip(SubSeq(s, 1, Len(s) - 1))
  ELSE s

\* str.strip()
Strip(s) == RStrip(LStrip(s))

\* str.startswith(prefix)
StartsWith(s, prefix) ==
  Len(s) >= Len(prefix) /\ SubSeq(s, 1, Len(prefix)) = prefix

\* sub in s
Contains(sub, s) ==
  \E i \in 1..(Len(s) - Len(sub) + 1) : SubSeq(s, i, i + Len(sub) - 1) = sub

RECURSIVE SplitAcc(_, _, _)
SplitAcc(s, cur, acc) ==
  IF s = << >>
  THEN IF cur = << >> THEN acc ELSE Append(acc, cur)
  ELSE IF Head(s) \in Whitespace
       THEN SplitAcc(Tail(s), << >>, IF cur = << >> THEN acc ELSE Append(acc, cur))
       ELSE SplitAcc(Tail(s), Append(cur, Head(s)), acc)

\* str.split() with no separator: the runs of non-whitespace characters
Split(s) == SplitAcc(s, << >>, << >>)

RECURSIVE Join(_, _)
\* sep.join(parts)
Join(sep, parts) ==
  IF parts = << >> THEN << >>
  ELSE IF Len(parts) = 1 THEN parts[1]
       ELSE parts[1] \o sep \o Join(sep, Tail(parts))

\* bool(val) of a str or None
Truthy(val) == val # None /\ val # << >>

\* ------------------------------------------------------------------------
\* The value predicates
\* ------------------------------------------------------------------------
RecatWords == {<<"S","P","E","C","I","A","L">>, <<"T","B","C">>, <<"N","O","N","E">>}

LegacyWords == {<<"L">>, <<"M">>, <<"H">>, <<"J">>}

is_recat_value_NoStrip(val) ==
  IF ~Truthy(val) THEN FALSE
  ELSE LET v == Upper(val)
       IN  StartsWith(v, <<"C","A","T","-">>) \/ v \in RecatWords

is_recat_value(val) ==
  IF ~Truthy(val) THEN FALSE
  ELSE LET v == Strip(Upper(val))
       IN  StartsWith(v, <<"C","A","T","-">>) \/ v \in RecatWords

is_legacy_value(val) ==
  IF ~Truthy(val) THEN FALSE
  ELSE LET v == Strip(Upper(val))
       IN  v \in LegacyWords

clean_text(text) ==
  IF Truthy(text) THEN Strip(Join(<<" ">>, Split(text))) ELSE << >>

\* ------------------------------------------------------------------------
\* Table-Mode handling of one row (body of the loop "for row in table")
\* ------------------------------------------------------------------------
\* clean_row = [clean_text(cell) for cell in row]
CleanRow(row) == [i \in 1..Len(row) |-> clean_text(row[i])]

\* len(clean_row) < 4
TooFewColumns(clean_row) == Len(clean_row) < 4

RECURSIVE Concat(_)
\* "".join(clean_row)
Concat(cells) ==
  IF cells = << >> THEN << >> ELSE Head(cells) \o Concat(Tail(cells))

\* header detection
IsHeaderRow(clean_row) ==
  \/ Contains(<<"M","A","N","U","F","A","C","T","U","R","E","R">>, Upper(clean_row[1]))
  \/ Contains(<<"R","E","C","A","T","-","E","U">>, Upper(Concat(clean_row)))

\* data = [x for x in clean_row if x]
Compact(clean_row) == SelectSeq(clean_row, Truthy)

TooFewData_Two(data) == Len(data) < 2

\* len(data) < 3
TooFewData(data) == Len(data) < 3

Case2_Swapped(wtc_candidate_1, wtc_candidate_2) ==
  [legacy_val |-> wtc_candidate_2, recat_val |-> wtc_candidate_1]

\* Case 2: legacy_val = wtc_candidate_1; recat_val = wtc_candidate_2
Case2(wtc_candidate_1, wtc_candidate_2) ==
  [legacy_val |-> wtc_candidate_1, recat_val |-> wtc_candidate_2]

ContainsCat_Strict(wtc_candidate) == is_recat_value(wtc_candidate)

\* "CAT-" in wtc_candidate
ContainsCat(wtc_candidate) == Contains(<<"C","A","T","-">>, wtc_candidate)

Flagged_Unmarked(wtc_candidate_1, wtc_candidate_2) ==
  [legacy_val |-> wtc_candidate_1, recat_val |-> wtc_candidate_2]

\* the final else: both candidates kept in place and flagged
Flagged(wtc_candidate_1, wtc_candidate_2) ==
  [legacy_val |-> wtc_candidate_1 \o <<"?">>,
   recat_val |-> wtc_candidate_2 \o <<"?">>]

\* the if/elif chain assigning legacy_val and recat_val
ClassifyWtc(wtc_candidate_1, wtc_candidate_2) ==
  IF is_recat_value(wtc_candidate_1) /\ is_legacy_value(wtc_candidate_2)
  THEN [recat_val |-> wtc_candidate_1, legacy_val |-> wtc_candidate_2]
  ELSE IF is_legacy_value(wtc_candidate_1) /\ is_recat_value(wtc_candidate_2)
  THEN Case2(wtc_candidate_1, wtc_candidate_2)
  ELSE IF ContainsCat(wtc_candidate_1)
  THEN [recat_val |-> wtc_candidate_1, legacy_val |-> wtc_candidate_2]
  ELSE IF ContainsCat(wtc_candidate_2)
  THEN [recat_val |-> wtc_candidate_2, legacy_val |-> wtc_candidate_1]
  ELSE IF is_legacy_value(wtc_candidate_1)
  THEN [legacy_val |-> wtc_candidate_1, recat_val |-> wtc_candidate_2]
  ELSE IF is_legacy_value(wtc_candidate_2)
  THEN [legacy_val |-> wtc_candidate_2, recat_val |-> wtc_candidate_1]
  ELSE Flagged(wtc_candidate_1, wtc_candidate_2)

\* positions (1-based) of the cells of data read for each field
WtcCells(data) == {Len(data) - 1, Len(data)}

DesignatorCells(data) == {Len(data) - 2}

ManufacturerCells(data) == {1}

ModelCells(data) ==
  IF Len(data) > 4 THEN 2..(Len(data) - 3) ELSE {2}

\* designator = data[-3]
Designator(data) == data[Len(data) - 2]

\* manufacturer = data[0]
Manufacturer(data) == data[1]

Model_MoreThanThree(data) ==
  IF Len(data) > 3
  THEN Join(<<" ">>, SubSeq(data, 2, Len(data) - 3))
  ELSE data[2]

\* model = " ".join(data[1:-3]) if len(data) > 4 else data[1]
Model(data) ==
  IF Len(data) > 4
  THEN Join(<<" ">>, SubSeq(data, 2, Len(data) - 3))
  ELSE data[2]

\* the subscripts of data the record construction evaluates; a subscript
\* outside 1..Len(data) is Python's IndexError
SubscriptsUsed(data) ==
  WtcCells(data) \cup DesignatorCells(data) \cup ManufacturerCells(data)
    \cup (IF Len(data) > 4 THEN {} ELSE {2})

\* [manufacturer, model, designator, legacy_val, recat_val]
BuildRecord(data) ==
  LET wtc == ClassifyWtc(data[Len(data) - 1], data[Len(data)])
  IN  << Manufacturer(data), Model(data), Designator(data),
         wtc.legacy_val, wtc.recat_val >>

NoRecord == << >>

\* one iteration of the row loop: "skip" is a continue, "append" is
\* all_rows.append(...), "raise" is an exception leaving the loop
ProcessRow(row) ==
  LET clean_row == CleanRow(row)
  IN  IF TooFewColumns(clean_row)
      THEN [outcome |-> "skip", rec |-> NoRecord]
      ELSE IF Len(clean_row) < 1
      THEN [outcome |-> "raise", rec |-> NoRecord]
      ELSE IF IsHeaderRow(clean_row)
      THEN [outcome |-> "skip", rec |-> NoRecord]
      ELSE LET data == Compact(clean_row)
           IN  IF TooFewData(data)
               THEN [outcome |-> "skip", rec |-> NoRecord]
               ELSE IF ~(SubscriptsUsed(data) \subseteq 1..Len(data))
               THEN [outcome |-> "raise", rec |-> NoRecord]
               ELSE [outcome |-> "append", rec |-> BuildRecord(data)]

\* ------------------------------------------------------------------------
\* The CSV writer (csv.writer with the default "excel" dialect)
\* ------------------------------------------------------------------------
HeaderFields ==
  << <<"M","a","n","u","f","a","c","t","u","r","e","r">>, <<"M","o","d","e","l">>, <<"I","C","A","O"," ","T","y","p","e"," ","D","e","s","i","g","n","a","t","o","r">>,
     <<"I","C","A","O"," ","L","e","g","a","c","y"," ","W","T","C">>, <<"R","E","C","A","T","-","E","U"," ","W","T","C">> >>

CRLF == <<"\r","\n">>

NeedsQuoting(field) ==
  \E i \in 1..Len(field) : field[i] \in {",", "\"", "\r", "\n"}

RECURSIVE DoubleQuotes(_)
DoubleQuotes(field) ==
  IF field = << >> THEN << >>
  ELSE (IF Head(field) = "\"" THEN <<"\"","\"">> ELSE <<Head(field)>>)
         \o DoubleQuotes(Tail(field))

CsvField(field) ==
  IF NeedsQuoting(field)
  THEN <<"\"">> \o DoubleQuotes(field) \o <<"\"">>
  ELSE field

\* writer.writerow(fields): the text appended to the file
WriteRow(fields) ==
  Join(<<",">>, [i \in 1..Len(fields) |-> CsvField(fields[i])]) \o CRLF

RECURSIVE WriteRowsText(_)
\* writer.writerows(rows)
WriteRowsText(rows) ==
  IF rows = << >> THEN << >>
  ELSE WriteRow(Head(rows)) \o WriteRowsText(Tail(rows))

OpenForWrite_Append(content) == content

\* open(csv_path, "w"): the previous content is dropped
OpenForWrite(content) == << >>

AppendRecord_Front(rows, record) == <<record>> \o rows

\* all_rows.append(record)
AppendRecord(rows, record) == Append(rows, record)

\* ------------------------------------------------------------------------
\* State
\* ------------------------------------------------------------------------
VARIABLES
  val, recat_called, recat_res, legacy_called, legacy_res,  \* predicate calls
  row, outcome, rec,                                        \* one row
  pc, npages, p, tables, t, r, all_rows, pdf_open,          \* pdf_to_csv
  csv_state, csv_content, prior, reported, doc

predVars == << val, recat_called, recat_res, legacy_called, legacy_res >>

rowVars == << row, outcome, rec >>

runVars == << pc, npages, p, tables, t, r, all_rows, pdf_open,
              csv_state, csv_content, prior, reported, doc >>

vars == << predVars, rowVars, runVars >>

SeqsUpTo(S, n) == UNION {[1..k -> S] : k \in 0..n}

PredIdle ==
  /\ val = None
  /\ recat_called = FALSE /\ recat_res = FALSE
  /\ legacy_called = FALSE /\ legacy_res = FALSE

RowIdle == row = << >> /\ outcome = "pending" /\ rec = NoRecord

RunIdle ==
  /\ pc = "start" /\ npages = 0 /\ p = 0
  /\ tables = << >> /\ t = 1 /\ r = 1
  /\ all_rows = << >> /\ pdf_open = FALSE
  /\ csv_state = "untouched" /\ csv_content = << >> /\ prior = << >>
  /\ reported = << >> /\ doc = << >>

\* ------------------------------------------------------------------------
\* SpecPred: the value predicates applied to a value
\* ------------------------------------------------------------------------
LowerChar(c) ==
  IF \E i \in 1..Len(UpperLetters) : UpperLetters[i] = c
  THEN LowerLetters[CHOOSE i \in 1..Len(UpperLetters) : UpperLetters[i] = c]
  ELSE c

Lower(s) == [i \in 1..Len(s) |-> LowerChar(s[i])]

BaseWords ==
  { <<"C","A","T","-","A">>, <<"C","A","T","-","B">>, <<"C","A","T","-","C">>, <<"C","A","T","-","D">>, <<"C","A","T","-","E">>, <<"C","A","T","-","F">>,
    <<"C","A","T","-">>, <<"C","A","T">>, <<"C","A","T","-","F","X">>, <<"X","C","A","T","-","A">>, <<"C"," ","A","T","-","A">>,
    <<"S","p","e","c","i","a","l">>, <<"T","B","C">>, <<"N","o","n","e">>, <<"T","B","C","X">>, <<"N","o"," ","n","e">>,
    <<"L">>, <<"M">>, <<"H">>, <<"J">>, <<"L","M">>, <<"K">>, <<"H","e","a","v","y">>, <<"?">>, << >> }

CaseForms(w) == {w, Upper(w), Lower(w)}

Paddings(w) == {w, <<" ">> \o w, w \o <<"\n">>, <<"\t"," ">> \o w \o <<" "," ">>}

PredInputs ==
  {None} \cup UNION {UNION {Paddings(c) : c \in CaseForms(w)} : w \in BaseWords}

InitPred ==
  /\ val \in PredInputs
  /\ recat_called = FALSE /\ recat_res = FALSE
  /\ legacy_called = FALSE /\ legacy_res = FALSE
  /\ RowIdle /\ RunIdle

CallRecat ==
  /\ ~recat_called
  /\ recat_called' = TRUE
  /\ recat_res' = is_recat_value(val)
  /\ UNCHANGED << val, legacy_called, legacy_res, rowVars, runVars >>

CallLegacy ==
  /\ ~legacy_called
  /\ legacy_called' = TRUE
  /\ legacy_res' = is_legacy_value(val)
  /\ UNCHANGED << val, recat_called, recat_res, rowVars, runVars >>

NextPred == CallRecat \/ CallLegacy

SpecPred == InitPred /\ [][NextPred]_vars

\* ------------------------------------------------------------------------
\* SpecRow: the row loop body applied to one row of cells
\* ------------------------------------------------------------------------
HeadVocab ==
  { None, << >>, <<"B","o">>, <<" ","A","\n"," ","3"," ">>, <<"m","a","n","u","f","a","c","t","u","r","e","r"," ","x">>, <<"R","e","c","a","t">> }

WtcVocab ==
  { <<"C","A","T","-","F">>, <<"c","a","t","-","f">>, <<"T","B","C">>, <<"L">>, <<" ","m">>, <<"(","C","A","T","-","B",")">>, <<"-","E","U">>, <<"x","?">> }

LongPrefixes ==
  { << <<"B","o">>, <<"7"," ","4">>, <<"-","8">>, <<"B","7","4","8">> >>,
    << <<"B","o">>, None, <<"7","\n","4">>, << >>, <<"-","8">>, <<"F">>, <<"B","7","4","8">> >>,
    << None, <<"B","o">>, <<"M","a","n","u","f","a","c","t","u","r","e","r">>, <<"7"," ","4">>, <<"R","E","C","A","T">>, <<"E","U">> >> }

RowInputs ==
  { head \o tail : head \in SeqsUpTo(HeadVocab, MaxHead) \cup LongPrefixes,
                   tail \in SeqsUpTo(WtcVocab, 2) }

InitRow ==
  /\ row \in RowInputs
  /\ outcome = "pending" /\ rec = NoRecord
  /\ PredIdle /\ RunIdle

HandleRow ==
  /\ outcome = "pending"
  /\ LET res == ProcessRow(row)
     IN  outcome' = res.outcome /\ rec' = res.rec
  /\ UNCHANGED << row, predVars, runVars >>

NextRow == HandleRow

SpecRow == InitRow /\ [][NextRow]_vars

\* ------------------------------------------------------------------------
\* Spec: one run of pdf_to_csv.  The PDF backend is the environment: it
\* fixes the page count at open and yields the tables of a page on each
\* page.extract_tables() call; doc records what it has yielded so far.
\* ------------------------------------------------------------------------
RowA == << <<"B","o">>, <<" ","7","\n","4">>, <<"B","7","4">>, <<"H">>, <<"C","A","T","-","B">> >>

RowB == << <<"A","b">>, None, <<"A",",","3">>, <<"A","3">>, <<"T","B","C">>, <<"T","B","C">> >>

RowH == << <<"M","a","n","u","f","a","c","t","u","r","e","r">>, <<"M","o","d","e","l">>, <<"T","y","p","e">>, <<"W","T","C">>, <<"R","E","C","A","T","-","E","U">> >>

TableInputs == { << RowA, RowH, RowB >>, << RowH >> }

PageInputs == SeqsUpTo(TableInputs, MaxTables)

PriorContents == { << >>, <<"o","l","d","\r","\n">> }

Init ==
  /\ pc = "start" /\ npages = 0 /\ p = 0
  /\ tables = << >> /\ t = 1 /\ r = 1
  /\ all_rows = << >> /\ pdf_open = FALSE
  /\ csv_state = "untouched" /\ prior \in PriorContents /\ csv_content = prior
  /\ reported = << >> /\ doc = << >>
  /\ PredIdle /\ RowIdle

\* the exception leaves pdf_to_csv: the with block closes the PDF and the
\* frame, with all_rows, is gone
Unwind ==
  /\ pc' = "failed"
  /\ pdf_open' = FALSE
  /\ all_rows' = << >>

\* pdfplumber.open(pdf_path) succeeds
OpenPdf ==
  /\ pc = "start"
  /\ \E n \in 0..MaxPages : npages' = n
  /\ pdf_open' = TRUE
  /\ all_rows' = << >>
  /\ pc' = "loop"
  /\ UNCHANGED << p, tables, t, r, csv_state, csv_content, reported, doc,
                  prior,
                  predVars, rowVars >>

\* pdfplumber.open(pdf_path) raises
OpenPdfFails ==
  /\ pc = "start"
  /\ pc' = "failed"
  /\ UNCHANGED << npages, p, tables, t, r, all_rows, pdf_open, csv_state,
                  csv_content, reported, doc, prior,
                  predVars, rowVars >>

\* every table of the current page has been iterated
PageDone == t > Len(tables)

LoopDone_AfterAnyPage == PageDone

\* every page has been iterated
LoopDone == p = npages /\ PageDone

\* next page: tables = page.extract_tables()
NextPage ==
  /\ pc = "loop" /\ PageDone /\ p < npages
  /\ \E tbls \in PageInputs : tables' = tbls /\ doc' = Append(doc, tbls)
  /\ p' = p + 1 /\ t' = 1 /\ r' = 1
  /\ UNCHANGED << pc, npages, all_rows, pdf_open, csv_state, csv_content,
                  reported, prior,
                  predVars, rowVars >>

\* page.extract_tables() raises
ExtractTablesFails ==
  /\ pc = "loop" /\ PageDone /\ p < npages
  /\ Unwind
  /\ UNCHANGED << npages, p, tables, t, r, csv_state, csv_content, reported,
                  doc, prior,
                  predVars, rowVars >>

\* one iteration of "for row in table"
RowStep ==
  /\ pc = "loop" /\ ~PageDone /\ r <= Len(tables[t])
  /\ LET res == ProcessRow(tables[t][r])
     IN  IF res.outcome = "raise"
         THEN Unwind
         ELSE /\ all_rows' = (IF res.outcome = "append"
                              THEN AppendRecord(all_rows, res.rec)
                              ELSE all_rows)
              /\ UNCHANGED << pc, pdf_open >>
  /\ r' = r + 1
  /\ UNCHANGED << npages, p, tables, t, csv_state, csv_content, reported,
                  doc, prior,
                  predVars, rowVars >>

\* "for row in table" is exhausted: next table of the page
NextTable ==
  /\ pc = "loop" /\ ~PageDone /\ r > Len(tables[t])
  /\ t' = t + 1 /\ r' = 1
  /\ UNCHANGED << pc, npages, p, tables, all_rows, pdf_open, csv_state,
                  csv_content, reported, doc, prior,
                  predVars, rowVars >>

\* open(csv_path, "w", ...) after the page loop
OpenCsv ==
  /\ pc = "loop" /\ LoopDone
  /\ csv_state' = "open"
  /\ csv_content' = OpenForWrite(csv_content)
  /\ pc' = "header"
  /\ UNCHANGED << npages, p, tables, t, r, all_rows, pdf_open, reported,
                  doc, prior,
                  predVars, rowVars >>

\* open(csv_path, "w", ...) raises: the file is left as it was
OpenCsvFails ==
  /\ pc = "loop" /\ LoopDone
  /\ Unwind
  /\ UNCHANGED << npages, p, tables, t, r, csv_state, csv_content, reported,
                  doc, prior,
                  predVars, rowVars >>

\* writer.writerow([...header...])
WriteHeader ==
  /\ pc = "header"
  /\ csv_content' = csv_content \o WriteRow(HeaderFields)
  /\ pc' = "rows"
  /\ UNCHANGED << npages, p, tables, t, r, all_rows, pdf_open, csv_state,
                  reported, doc, prior,
                  predVars, rowVars >>

\* writer.writerows(all_rows)
WriteRows ==
  /\ pc = "rows"
  /\ csv_content' = csv_content \o WriteRowsText(all_rows)
  /\ pc' = "close_csv"
  /\ UNCHANGED << npages, p, tables, t, r, all_rows, pdf_open, csv_state,
                  reported, doc, prior,
                  predVars, rowVars >>

\* end of "with open(...) as f"
CloseCsv ==
  /\ pc = "close_csv"
  /\ csv_state' = "closed"
  /\ pc' = "report"
  /\ UNCHANGED << npages, p, tables, t, r, all_rows, pdf_open, csv_content,
                  reported, doc, prior,
                  predVars, rowVars >>

\* print(f"Successfully converted {len(all_rows)} aircraft entries ...")
Report ==
  /\ pc = "report"
  /\ reported' = Append(reported, Len(all_rows))
  /\ pc' = "close_pdf"
  /\ UNCHANGED << npages, p, tables, t, r, all_rows, pdf_open, csv_state,
                  csv_content, doc, prior,
                  predVars, rowVars >>

\* end of "with pdfplumber.open(...) as pdf"
ClosePdf ==
  /\ pc = "close_pdf"
  /\ pdf_open' = FALSE
  /\ pc' = "done"
  /\ UNCHANGED << npages, p, tables, t, r, all_rows, csv_state, csv_content,
                  reported, doc, prior,
                  predVars, rowVars >>

Next ==
  \/ OpenPdf \/ OpenPdfFails
  \/ NextPage \/ ExtractTablesFails
  \/ RowStep \/ NextTable
  \/ OpenCsv \/ OpenCsvFails
  \/ WriteHeader \/ WriteRows \/ CloseCsv
  \/ Report \/ ClosePdf

Spec == Init /\ [][Next]_vars

\* ------------------------------------------------------------------------
\* Properties
\* ------------------------------------------------------------------------
\* the row of SpecRow after cleaning and compaction
Data == Compact(CleanRow(row))

Accepted == outcome = "append"

Wtc1 == Data[Len(Data) - 1]

Wtc2 == Data[Len(Data)]

Unmodified ==
  \/ rec[4] = Wtc1 /\ rec[5] = Wtc2
  \/ rec[4] = Wtc2 /\ rec[5] = Wtc1

\* C1: when one of the last two compacted cells passes is_recat_value and
\* the other passes is_legacy_value, the legacy field is the cell that passed
\* the Legacy check and the recat field the cell that passed the RECAT check,
\* in either order of the two cells; swapping the cells gives the same fields.
C1_OrderIndependent ==
  Accepted =>
    /\ (is_recat_value(Wtc1) /\ is_legacy_value(Wtc2))
         => (rec[4] = Wtc2 /\ rec[5] = Wtc1)
    /\ (is_legacy_value(Wtc1) /\ is_recat_value(Wtc2))
         => (rec[4] = Wtc1 /\ rec[5] = Wtc2)
    /\ ( \/ is_recat_value(Wtc1) /\ is_legacy_value(Wtc2)
         \/ is_legacy_value(Wtc1) /\ is_recat_value(Wtc2) )
         => LET swapped == ClassifyWtc(Wtc2, Wtc1)
            IN  swapped.legacy_val = rec[4] /\ swapped.recat_val = rec[5]

C1_Witness ==
  /\ Accepted
  /\ Wtc1 = <<"L">> /\ Wtc2 = <<"C","A","T","-","F">>
  /\ rec[4] = <<"L">> /\ rec[5] = <<"C","A","T","-","F">>

FullyAmbiguous ==
  /\ ~is_legacy_value(Wtc1) /\ ~is_legacy_value(Wtc2)
  /\ ~Contains(<<"C","A","T","-">>, Wtc1) /\ ~Contains(<<"C","A","T","-">>, Wtc2)

\* C2: the "?" marker is appended to both fields, legacy from the first
\* candidate and recat from the second, exactly when neither candidate passes
\* the Legacy check and neither contains "CAT-"; otherwise the two fields are
\* the two candidates unmodified.
C2_MarkerExactlyWhenAmbiguous ==
  Accepted =>
    IF FullyAmbiguous
    THEN rec[4] = Wtc1 \o <<"?">> /\ rec[5] = Wtc2 \o <<"?">>
    ELSE Unmodified

C2_Witness ==
  /\ Accepted
  /\ Wtc1 = <<"T","B","C">> /\ Wtc2 = <<"T","B","C">>
  /\ rec[4] = <<"T","B","C","?">> /\ rec[5] = <<"T","B","C","?">>

Norm(v) == Strip(Upper(v))

RecatReference(v) ==
  /\ v # None /\ v # << >>
  /\ \/ (Len(Norm(v)) >= 4 /\ SubSeq(Norm(v), 1, 4) = <<"C","A","T","-">>)
     \/ Norm(v) = <<"S","P","E","C","I","A","L">> \/ Norm(v) = <<"T","B","C">> \/ Norm(v) = <<"N","O","N","E">>

LegacyReference(v) ==
  /\ v # None /\ v # << >>
  /\ Norm(v) \in {<<"L">>, <<"M">>, <<"H">>, <<"J">>}

RecatExamples ==
  { <<"C","A","T","-","A">>, <<"C","A","T","-","B">>, <<"C","A","T","-","C">>, <<"C","A","T","-","D">>, <<"C","A","T","-","E">>, <<"C","A","T","-","F">>,
    <<"c","a","t","-","a">>, <<"\t"," ","c","a","t","-","f"," "," ">>, <<" ","C","A","T","-","C">>, <<"S","p","e","c","i","a","l">>, <<"T","B","C">>, <<"N","o","n","e">> }

LegacyExamples ==
  { <<"L">>, <<"M">>, <<"H">>, <<"J">>, <<"l">>, <<"m">>, <<"h">>, <<"j">> }

\* C3: is_recat_value(v) holds exactly when v is non-empty and, upper-cased
\* and trimmed, starts with "CAT-" or is SPECIAL, TBC or NONE; is_legacy_value
\* (v) holds exactly when v, upper-cased and trimmed, is L, M, H or J; with the
\* stated examples on each side.
C3_PredicatesMatchReference ==
  /\ recat_called =>
       /\ recat_res = RecatReference(val)
       /\ val \in RecatExamples => recat_res
       /\ val \in {<< >>, None, <<"L">>} => ~recat_res
  /\ legacy_called =>
       /\ legacy_res = LegacyReference(val)
       /\ val \in LegacyExamples => legacy_res
       /\ val \in {<<"C","A","T","-","A">>, << >>, None} => ~legacy_res

C3_Witness ==
  /\ val = <<"\t"," ","c","a","t","-","f"," "," ">>
  /\ recat_called /\ recat_res
  /\ legacy_called /\ ~legacy_res

\* the number of cells of the row that are non-empty after cleaning
NonEmptyCells == Cardinality({i \in 1..Len(row) : clean_text(row[i]) # << >>})

SkipCondition ==
  \/ Len(row) < 4
  \/ Contains(<<"M","A","N","U","F","A","C","T","U","R","E","R">>, Upper(clean_text(row[1])))
  \/ Contains(<<"R","E","C","A","T","-","E","U">>, Upper(Concat(CleanRow(row))))
  \/ NonEmptyCells < 3

RECURSIVE SpaceJoined(_, _, _)
\* cells from..to of cells, a single space between consecutive cells
SpaceJoined(cells, from, to) ==
  IF from > to THEN << >>
  ELSE IF from = to THEN cells[to]
       ELSE SpaceJoined(cells, from, to - 1) \o <<" ">> \o cells[to]

StrictPair ==
  \/ is_recat_value(Wtc1) /\ is_legacy_value(Wtc2)
  \/ is_legacy_value(Wtc1) /\ is_recat_value(Wtc2)

\* C9: when the candidates are not a strict RECAT/Legacy pair in either
\* order and one of them contains "CAT-", a candidate containing "CAT-" is the
\* recat field and the other the legacy field, both unmodified, whether or not
\* the other passes the Legacy check.
C9_CatFallback ==
  (/\ Accepted
   /\ ~StrictPair
   /\ Contains(<<"C","A","T","-">>, Wtc1) \/ Contains(<<"C","A","T","-">>, Wtc2))
    => /\ Contains(<<"C","A","T","-">>, rec[5])
       /\ Unmodified
       /\ Contains(<<"C","A","T","-">>, Wtc1) => rec[5] = Wtc1

C9_Witness ==
  /\ Accepted
  /\ Wtc1 = <<"T","B","C">> /\ Wtc2 = <<"(","C","A","T","-","B",")">>
  /\ rec[4] = <<"T","B","C">> /\ rec[5] = <<"(","C","A","T","-","B",")">>

Disjoint(A, B) == A \cap B = {}

\* C10: the five fields of a record come from pairwise disjoint cells of the
\* compacted row, for every accepted row length.
C10_FieldsFromDisjointCells ==
  Accepted =>
    /\ Disjoint(ModelCells(Data), ManufacturerCells(Data))
    /\ Disjoint(ModelCells(Data), DesignatorCells(Data))
    /\ Disjoint(ModelCells(Data), WtcCells(Data))
    /\ Disjoint(ManufacturerCells(Data), DesignatorCells(Data))
    /\ Disjoint(ManufacturerCells(Data), WtcCells(Data))
    /\ Disjoint(DesignatorCells(Data), WtcCells(Data))

HeaderLine ==
  <<"M","a","n","u","f","a","c","t","u","r","e","r",",","M","o","d","e","l",",","I","C","A","O"," ","T","y","p","e"," ","D","e","s","i","g","n","a","t","o","r",",","I","C","A","O"," ","L","e","g","a","c","y"," ","W","T","C",",","R","E","C","A","T","-","E","U"," ","W","T","C">>

\* the positions of the CR of each CR LF of a file
LineEnds(content) ==
  {i \in 1..(Len(content) - 1) : content[i] = "\r" /\ content[i + 1] = "\n"}

\* the lines of a file: the text before each CR LF, and what follows the last
Lines(content) ==
  LET ends == LineEnds(content)
      n == Cardinality(ends)
      EndOf(k) == CHOOSE e \in ends : Cardinality({x \in ends : x < e}) = k - 1
      StartOf(k) == IF k = 1 THEN 1 ELSE EndOf(k - 1) + 2
      full == [k \in 1..n |-> SubSeq(content, StartOf(k), EndOf(k) - 1)]
      rest == SubSeq(content, StartOf(n + 1), Len(content))
  IN  IF rest = << >> THEN full ELSE Append(full, rest)

Written == pc \in {"rows", "close_csv", "report", "close_pdf", "done"}

\* C4: once the CSV file has been written to, its first line is the fixed
\* five-column header, also when no data row is produced; nothing precedes it.
C4_HeaderFirst ==
  /\ (csv_state # "untouched" /\ csv_content # << >>)
       => Lines(csv_content)[1] = HeaderLine
  /\ Written => (csv_content # << >> /\ Lines(csv_content)[1] = HeaderLine)

\* the rows the backend has yielded, page by page, table by table
RECURSIVE Flatten(_)
Flatten(seqs) ==
  IF seqs = << >> THEN << >> ELSE Head(seqs) \o Flatten(Tail(seqs))

RowsOf(document) == Flatten(Flatten(document))

AcceptedRows(document) ==
  SelectSeq(RowsOf(document), LAMBDA x : ProcessRow(x).outcome = "append")

C4_Witness ==
  /\ pc = "done"
  /\ prior # << >>
  /\ Len(RowsOf(doc)) >= 2
  /\ AcceptedRows(doc) = << >>
  /\ Lines(csv_content) = << HeaderLine >>

AllIterated == p = npages /\ t > Len(tables) /\ Len(doc) = npages

\* C5: the CSV file is opened only after every page, table and row has been
\* handled; while iterating, and after a failure, the file still has the
\* content it had before the run, nothing has been reported and the
\* accumulated records are gone.
C5_NoPartialOutput ==
  /\ pc \in {"start", "loop", "failed"}
       => (csv_state = "untouched" /\ csv_content = prior)
  /\ csv_state # "untouched" => AllIterated
  /\ pc = "failed" => (all_rows = << >> /\ reported = << >>)

C5_Witness ==
  /\ pc = "failed"
  /\ Len(doc) >= 1 /\ p < npages
  /\ Len(AcceptedRows(doc)) >= 2
  /\ csv_state = "untouched" /\ csv_content = prior /\ prior # << >>

\* the line written for a record, without its line end
LineOf(record) ==
  SubSeq(WriteRow(record), 1, Len(WriteRow(record)) - Len(CRLF))

\* C8: at the end the data lines of the CSV file are the records of the
\* accepted rows in page, table, row order, one line each, and the reported
\* count is the number of data lines.
C8_OrderPreserved ==
  pc = "done" =>
    LET lines == Lines(csv_content)
        expected == AcceptedRows(doc)
    IN  /\ Len(lines) = Len(expected) + 1
        /\ \A i \in 1..Len(expected) :
             lines[i + 1] = LineOf(ProcessRow(expected[i]).rec)
        /\ reported = << Len(lines) - 1 >>

C8_Witness ==
  /\ pc = "done"
  /\ Len(doc) = 2
  /\ AcceptedRows(doc) = << RowA, RowB, RowA, RowB >>
  /\ Lines(csv_content) =
       << HeaderLine,
          <<"B","o",",","7"," ","4",",","B","7","4",",","H",",","C","A","T","-","B">>, <<"A","b",",","\"","A",",","3","\"",",","A","3",",","T","B","C","?",",","T","B","C","?">>,
          <<"B","o",",","7"," ","4",",","B","7","4",",","H",",","C","A","T","-","B">>, <<"A","b",",","\"","A",",","3","\"",",","A","3",",","T","B","C","?",",","T","B","C","?">> >>
  /\ reported = << 4 >>

====
